---- MODULE Spec2Model ----
(***************************************************************************)
(* Passkey example server: the registration / login challenge protocol of  *)
(* src/unnamed/part_003 (userDB, registrationChallengeMap,                 *)
(* loginChallengeMap and the four WebAuthn handlers), with the base64url   *)
(* and COSE key helpers the handlers call.  Beside it: the simple          *)
(* key-store server of the same file (db, POST /register, POST /login,     *)
(* GET /protected), and the client app of src/app/index.tsx (the Create,   *)
(* Login and Send UserOp handlers), one action per run between two awaits. *)
(*                                                                         *)
(* A handler runs without interruption between two awaits; the model has   *)
(* one action per such run.  Requests suspended at an await sit in `reqs`. *)
(***************************************************************************)
EXTENDS Integers, Sequences, FiniteSets, TLC

\* ------------------------------------------------------------------ bounds
MaxInterleavedUsers == 1   \* of the users, while handlers interleave
MaxUsers == 2        \* user identifiers uuidv4 hands out
MaxLoginChallenges == 2   \* challenges generateAuthenticationOptions hands out
MaxCounter == 2      \* largest signature counter an authenticator reports
MaxInflight == 2     \* requests suspended at an await at the same time
MaxExtraBytes == 1   \* bytes a key payload has beyond the 65 of an uncompressed point
MaxBytes == 3        \* length of the byte sequences the base64url helpers are run on
MaxStoreUsers == 3   \* userId strings sent to the key-store server
MaxPublicKeys == 2   \* publicKey strings sent to the key-store server
MaxCredentials == 2  \* passkeys passkey.create makes on the device

\* ------------------------------------------------------- text and bytes
\* A text is a sequence of one-character strings, a byte array a sequence
\* of numbers 0..255.
B64Alphabet ==
  << "A","B","C","D","E","F","G","H","I","J","K","L","M","N","O","P",
     "Q","R","S","T","U","V","W","X","Y","Z","a","b","c","d","e","f",
     "g","h","i","j","k","l","m","n","o","p","q","r","s","t","u","v",
     "w","x","y","z","0","1","2","3","4","5","6","7","8","9","+","/" >>

HexDigitsUpper ==
  << "0","1","2","3","4","5","6","7","8","9","A","B","C","D","E","F" >>

HexDigits ==
  << "0","1","2","3","4","5","6","7","8","9","a","b","c","d","e","f" >>

B64Char(n) == B64Alphabet[n + 1]

B64Chars == {B64Alphabet[i] : i \in 1..64}

\* The value of each base64 character.
B64Values == [c \in B64Chars |-> (CHOOSE i \in 1..64 : B64Alphabet[i] = c) - 1]

B64Index(c) == B64Values[c]

IsB64Char(c) == c \in B64Chars

\* s.replace(/from/g, to) for a one-character pattern
ReplaceAll(s, from, to) == [i \in 1..Len(s) |-> IF s[i] = from THEN to ELSE s[i]]

\* A repeat that yields the character once, whatever the count.
RepeatOnce(c, n) == << c >>

Repeat(c, n) == [i \in 1..n |-> c]

\* Buffer.from(bytes).toString("base64")
RECURSIVE ToBase64(_)
ToBase64(b) ==
  IF Len(b) = 0 THEN << >>
  ELSE IF Len(b) = 1 THEN
    << B64Char(b[1] \div 4), B64Char((b[1] % 4) * 16), "=", "=" >>
  ELSE IF Len(b) = 2 THEN
    << B64Char(b[1] \div 4), B64Char((b[1] % 4) * 16 + (b[2] \div 16)),
       B64Char((b[2] % 16) * 4), "=" >>
  ELSE
    << B64Char(b[1] \div 4), B64Char((b[1] % 4) * 16 + (b[2] \div 16)),
       B64Char((b[2] % 16) * 4 + (b[3] \div 64)), B64Char(b[3] % 64) >>
    \o ToBase64(SubSeq(b, 4, Len(b)))

\* s.replace(/=+$/, "")
RECURSIVE StripPadding(_)
StripPadding(s) ==
  IF Len(s) > 0 /\ s[Len(s)] = "=" THEN StripPadding(SubSeq(s, 1, Len(s) - 1))
  ELSE s

uint8ArrayToBase64Url(uint8Array) ==
  StripPadding(ReplaceAll(ReplaceAll(ToBase64(uint8Array), "+", "-"), "/", "_"))

\* The bytes of a run of base64 characters (no padding in it): three bytes
\* per four characters, the bits left over at the end dropped.
RECURSIVE DecodeSextets(_)
DecodeSextets(s) ==
  IF Len(s) < 2 THEN << >>
  ELSE
    LET a == B64Index(s[1])
        b == B64Index(s[2])
    IN  IF Len(s) = 2 THEN << a * 4 + (b \div 16) >>
        ELSE LET c == B64Index(s[3])
             IN  IF Len(s) = 3 THEN << a * 4 + (b \div 16), (b % 16) * 16 + (c \div 4) >>
                 ELSE << a * 4 + (b \div 16), (b % 16) * 16 + (c \div 4),
                         (c % 4) * 64 + B64Index(s[4]) >>
                      \o DecodeSextets(SubSeq(s, 5, Len(s)))

\* atob(s): up to two trailing "=" of a text whose length is a multiple of
\* four are removed; what is left must be base64 characters, and not one
\* character more than a multiple of four.  "throws" when it is not.
AtobBody(s) ==
  IF Len(s) % 4 = 0 /\ Len(s) > 0 /\ s[Len(s)] = "="
  THEN IF s[Len(s) - 1] = "=" THEN SubSeq(s, 1, Len(s) - 2)
       ELSE SubSeq(s, 1, Len(s) - 1)
  ELSE s

Atob(s) ==
  LET body == AtobBody(s)
  IN  IF Len(body) % 4 = 1 \/ \E i \in 1..Len(body) : ~IsB64Char(body[i])
      THEN [throws |-> TRUE, bytes |-> << >>]
      ELSE [throws |-> FALSE, bytes |-> DecodeSextets(body)]

base64urlToUint8Array(base64url) ==
  LET padding == Repeat("=", (4 - (Len(base64url) % 4)) % 4)
      base64 == ReplaceAll(ReplaceAll(base64url \o padding, "-", "+"), "_", "/")
  IN  Atob(base64)

\* Buffer.from(text, "base64"): reads up to the first "=", skips what is no
\* base64 character, never throws.
UpToPadding(s) ==
  LET stops == {i \in 1..Len(s) : s[i] = "="}
  IN  IF stops = {} THEN s
      ELSE SubSeq(s, 1, (CHOOSE i \in stops : \A j \in stops : i <= j) - 1)

BufferFromBase64(s) ==
  DecodeSextets(SelectSeq(UpToPadding(s), IsB64Char))

\* Buffer.from(bytes).toString("hex")
RECURSIVE ToHex(_)
ToHex(b) ==
  IF Len(b) = 0 THEN << >>
  ELSE << HexDigits[(b[1] \div 16) + 1], HexDigits[(b[1] % 16) + 1] >>
       \o ToHex(SubSeq(b, 2, Len(b)))

\* ------------------------------------------------------------ COSE keys
\* cbor.decodeFirstSync on the items a COSE key is made of: small integers
\* (major types 0 and 1), short byte strings (major type 2) and maps of
\* those (major type 5).  An item is [t |-> "int", v |-> n],
\* [t |-> "bytes", v |-> b] or [t |-> "map", m |-> label :> item @@ ...].
CborFail == [ok |-> FALSE, item |-> [t |-> "none"], next |-> 0]

CborScalar(b, pos) ==
  IF pos > Len(b) THEN CborFail
  ELSE LET h == b[pos]
       IN  IF h < 24 THEN [ok |-> TRUE, item |-> [t |-> "int", v |-> h], next |-> pos + 1]
           ELSE IF h >= 32 /\ h < 56
           THEN [ok |-> TRUE, item |-> [t |-> "int", v |-> (-1) - (h - 32)], next |-> pos + 1]
           ELSE IF h >= 64 /\ h < 88
           THEN IF pos + (h - 64) > Len(b) THEN CborFail
                ELSE [ok |-> TRUE,
                      item |-> [t |-> "bytes", v |-> SubSeq(b, pos + 1, pos + (h - 64))],
                      next |-> pos + 1 + (h - 64)]
           ELSE CborFail

RECURSIVE CborMapPairs(_, _, _, _)
CborMapPairs(b, pos, n, acc) ==
  IF n = 0 THEN [ok |-> TRUE, item |-> [t |-> "map", m |-> acc], next |-> pos]
  ELSE LET k == CborScalar(b, pos)
       IN  IF ~k.ok \/ k.item.t # "int" THEN CborFail
           ELSE LET v == CborScalar(b, k.next)
                IN  IF ~v.ok THEN CborFail
                    ELSE CborMapPairs(b, v.next, n - 1,
                           [l \in DOMAIN acc \cup {k.item.v} |->
                              IF l = k.item.v THEN v.item ELSE acc[l]])

CborDecodeFirst(b) ==
  IF Len(b) > 0 /\ b[1] >= 160 /\ b[1] < 184
  THEN CborMapPairs(b, 2, b[1] - 160, [l \in {} |-> 0])
  ELSE CborScalar(b, 1)

\* A test that also takes an empty byte string for no value.
FalsyOrEmpty(m, label) ==
  \/ label \notin DOMAIN m
  \/ m[label].t = "int" /\ m[label].v = 0
  \/ m[label].t = "bytes" /\ m[label].v = << >>

\* What a JavaScript `!v` is for a decoded item, `undefined` when the map
\* has no such label.
Falsy(m, label) ==
  \/ label \notin DOMAIN m
  \/ m[label].t = "int" /\ m[label].v = 0

\* parseCoseP256Key: [throws, message, xHex, yHex]
CoseThrow(msg) == [throws |-> TRUE, message |-> msg, xHex |-> << >>, yHex |-> << >>]

parseCoseP256Key(coseB64Url) ==
  LET base64 == ReplaceAll(ReplaceAll(coseB64Url, "-", "+"), "_", "/")
      pad == 4 - (Len(base64) % 4)
      base64Padded == IF pad # 4 THEN base64 \o Repeat("=", pad) ELSE base64
      coseBytes == BufferFromBase64(base64Padded)
      coseStruct == CborDecodeFirst(coseBytes)
  IN  IF ~coseStruct.ok THEN CoseThrow("cbor decode failed")
      ELSE IF coseStruct.item.t # "map" THEN CoseThrow("COSE public key is not a CBOR map?")
      ELSE LET m == coseStruct.item.m
           IN  IF Falsy(m, -2) \/ Falsy(m, -3) THEN CoseThrow("COSE key missing x or y")
               ELSE IF m[-2].t # "bytes" \/ m[-3].t # "bytes"
               THEN CoseThrow("Buffer.from: not a byte array")
               ELSE [throws |-> FALSE, message |-> "",
                     xHex |-> ToHex(m[-2].v), yHex |-> ToHex(m[-3].v)]

\* ------------------------------------------------------------ SPKI keys
\* src/utils/parseCred.ts.  asn1js's fromBER on definite-length encodings:
\* an element is [tag, constructed, value, valueHex], `value` the elements
\* inside a constructed one and `valueHex` the content of a primitive one
\* (of a BIT STRING: the content after its unused-bits byte).
BitStringTag == 3
OctetStringTag == 4
SequenceTag == 48

Asn1Fail == [ok |-> FALSE, next |-> 0,
             element |-> [tag |-> 0, constructed |-> FALSE, value |-> << >>,
                          valueHex |-> << >>]]

\* The length octets at pos: [ok, length, start of the content].
Asn1Length(b, pos) ==
  IF pos > Len(b) THEN [ok |-> FALSE, length |-> 0, start |-> 0]
  ELSE IF b[pos] < 128 THEN [ok |-> TRUE, length |-> b[pos], start |-> pos + 1]
  ELSE IF b[pos] = 129 /\ pos + 1 <= Len(b)
  THEN [ok |-> TRUE, length |-> b[pos + 1], start |-> pos + 2]
  ELSE IF b[pos] = 130 /\ pos + 2 <= Len(b)
  THEN [ok |-> TRUE, length |-> b[pos + 1] * 256 + b[pos + 2], start |-> pos + 3]
  ELSE [ok |-> FALSE, length |-> 0, start |-> 0]

RECURSIVE Asn1Element(_, _, _)
RECURSIVE Asn1Elements(_, _, _, _)
\* The element that starts at pos and ends before `end`.
Asn1Element(b, pos, end) ==
  IF pos >= end THEN Asn1Fail
  ELSE
    LET tag == b[pos]
        l == Asn1Length(SubSeq(b, 1, end - 1), pos + 1)
        stop == l.start + l.length
    IN  IF ~l.ok \/ stop > end THEN Asn1Fail
        ELSE IF (tag \div 32) % 2 = 1
        THEN LET inside == Asn1Elements(b, l.start, stop, << >>)
             IN  IF ~inside.ok THEN Asn1Fail
                 ELSE [ok |-> TRUE, next |-> stop,
                       element |-> [tag |-> tag, constructed |-> TRUE,
                                    value |-> inside.value, valueHex |-> << >>]]
        ELSE IF tag = BitStringTag
        THEN IF l.length = 0
             THEN [ok |-> TRUE, next |-> stop,
                   element |-> [tag |-> tag, constructed |-> FALSE,
                                value |-> << >>, valueHex |-> << >>]]
             ELSE IF b[l.start] > 7 THEN Asn1Fail
             ELSE [ok |-> TRUE, next |-> stop,
                   element |-> [tag |-> tag, constructed |-> FALSE, value |-> << >>,
                                valueHex |-> SubSeq(b, l.start + 1, stop - 1)]]
        ELSE [ok |-> TRUE, next |-> stop,
              element |-> [tag |-> tag, constructed |-> FALSE, value |-> << >>,
                           valueHex |-> SubSeq(b, l.start, stop - 1)]]

\* The elements from pos up to `end`.
Asn1Elements(b, pos, end, acc) ==
  IF pos = end THEN [ok |-> TRUE, value |-> acc]
  ELSE LET e == Asn1Element(b, pos, end)
       IN  IF ~e.ok THEN [ok |-> FALSE, value |-> << >>]
           ELSE Asn1Elements(b, e.next, end, Append(acc, e.element))

\* fromBER(buffer): the first element of the buffer; offset -1 is ~ok.
fromBER(b) == Asn1Element(b, 1, Len(b) + 1)

\* Whether element.valueBlock.value is an array: it is for the constructed
\* elements and for the string types that have a constructed form.
HasValueArray(element) ==
  element.constructed \/ element.tag \in {BitStringTag, OctetStringTag}

\* A decoder that knows the "+" and "/" of base64 only.
BufferFromPlainBase64(s) == BufferFromBase64(s)

\* Buffer.from(text, "base64") of the `buffer` package: "-" and "_" are read
\* as "+" and "/".
BufferFromBase64Url(s) ==
  BufferFromBase64(ReplaceAll(ReplaceAll(s, "-", "+"), "_", "/"))

UncompressedPointLength == 65
UncompressedPrefix == 4
CoordinateLength == 32

\* parseP256SpkiBase64: [throws, message, xHex, yHex]
SpkiThrow(msg) == [throws |-> TRUE, message |-> msg, xHex |-> << >>, yHex |-> << >>]

\* The same with the prefix looked at before the length.
parseP256SpkiBase64PrefixFirst(pubKeyB64) ==
  LET raw == BufferFromBase64Url(pubKeyB64)
      asn1 == fromBER(raw)
      spkiSequence == asn1.element
  IN  IF ~asn1.ok THEN SpkiThrow("Failed to parse ASN.1 structure (offset = -1).")
      ELSE IF ~HasValueArray(spkiSequence)
      THEN SpkiThrow("TypeError: Cannot read properties of undefined (reading 'length')")
      ELSE IF Len(spkiSequence.value) < 2
      THEN SpkiThrow("Not a valid SubjectPublicKeyInfo sequence.")
      ELSE
        LET subjectPublicKeyInfo == spkiSequence.value[2]
            pkBitString == subjectPublicKeyInfo.valueHex
        IN  IF subjectPublicKeyInfo.tag # BitStringTag
            THEN SpkiThrow("SPKI does not contain a BitString in the second element.")
            ELSE IF Len(pkBitString) > 0 /\ pkBitString[1] # UncompressedPrefix
            THEN SpkiThrow("Expected uncompressed format (0x04) at start of public key data.")
            ELSE IF Len(pkBitString) < UncompressedPointLength
            THEN SpkiThrow("Public key bit string is too short.")
            ELSE [throws |-> FALSE, message |-> "",
                  xHex |-> ToHex(SubSeq(pkBitString, 2, 1 + CoordinateLength)),
                  yHex |-> ToHex(SubSeq(pkBitString, 2 + CoordinateLength,
                                        1 + 2 * CoordinateLength))]

parseP256SpkiBase64(pubKeyB64) ==
  LET raw == BufferFromBase64Url(pubKeyB64)
      asn1 == fromBER(raw)
      spkiSequence == asn1.element
  IN  IF ~asn1.ok THEN SpkiThrow("Failed to parse ASN.1 structure (offset = -1).")
      ELSE IF ~HasValueArray(spkiSequence)
      THEN SpkiThrow("TypeError: Cannot read properties of undefined (reading 'length')")
      ELSE IF Len(spkiSequence.value) < 2
      THEN SpkiThrow("Not a valid SubjectPublicKeyInfo sequence.")
      ELSE
        LET subjectPublicKeyInfo == spkiSequence.value[2]
            pkBitString == subjectPublicKeyInfo.valueHex
        IN  IF subjectPublicKeyInfo.tag # BitStringTag
            THEN SpkiThrow("SPKI does not contain a BitString in the second element.")
            ELSE IF Len(pkBitString) < UncompressedPointLength
            THEN SpkiThrow("Public key bit string is too short.")  \* "Length = n" left out
            ELSE IF pkBitString[1] # UncompressedPrefix
            THEN SpkiThrow("Expected uncompressed format (0x04) at start of public key data.")
            ELSE [throws |-> FALSE, message |-> "",
                  xHex |-> ToHex(SubSeq(pkBitString, 2, 1 + CoordinateLength)),
                  yHex |-> ToHex(SubSeq(pkBitString, 2 + CoordinateLength,
                                        1 + 2 * CoordinateLength))]

\* ------------------------------------------------------- request inputs
UserIds == 1..MaxUsers
NoHandle == 0                       \* credential.response.userHandle absent
NoResponse == -1                    \* credential.response absent
Handles == 0..(MaxUsers + 1)        \* MaxUsers + 1: a handle of no user
UserNames == {"alice"}
\* The challenges are random values, no two calls drawing the same: the
\* login challenges are numbered as they are drawn, the registration
\* challenge of the call made for userId is a number of its own.
LoginChallenges == 1..MaxLoginChallenges
RegistrationChallenge(userId) == MaxLoginChallenges + userId
Challenges == LoginChallenges \cup {RegistrationChallenge(u) : u \in UserIds}
NoChallenge == 0
Counters == 0..MaxCounter

\* COSE public keys, and the credentials (identifier, key) an authenticator
\* may produce.
KeyA == <<162, 33, 65, 10, 34, 65, 11>>      \* {-2: h'0a', -3: h'0b'}: a P-256 key
KeyNoY == <<161, 33, 65, 12>>                \* {-2: h'0c'}: a key with x only, as
                                             \* the Ed25519 keys are
Credentials ==
  { [credentialID |-> <<251>>, credentialPublicKey |-> KeyA],
    [credentialID |-> <<7, 255>>, credentialPublicKey |-> KeyNoY] }
SigningKeys == {KeyA, KeyNoY}

\* What the verifier finds in a response apart from challenge, key and
\* counter: all in order, or a signature or attestation statement that does
\* not verify.
Checks == {"ok", "unverified"}

\* RegistrationResponseJSON, as far as the verifier reads it.
Attestations ==
  [challenge : Challenges, credential : Credentials, counter : Counters,
   check : Checks]

\* AuthenticationResponseJSON, as far as the handler and the verifier read it.
Assertions ==
  [userHandle : Handles, challenge : LoginChallenges,
   signedWith : SigningKeys, counter : Counters]

\* ----------------------------------------------------------- verifiers
\* The results of @simplewebauthn/server's verifyRegistrationResponse and
\* verifyAuthenticationResponse for the arguments the handlers pass.
NoInfo == [credentialID |-> << >>, credentialPublicKey |-> << >>, counter |-> 0]

NoVerification ==
  [throws |-> FALSE, message |-> "", verified |-> FALSE, hasInfo |-> FALSE,
   info |-> NoInfo, newCounter |-> 0]

VerifyThrow(msg) == [NoVerification EXCEPT !.throws = TRUE, !.message = msg]

verifyRegistrationResponse(response, expectedChallenge) ==
  IF response.challenge # expectedChallenge
  THEN VerifyThrow("Unexpected registration response challenge")
  ELSE IF response.check = "unverified" THEN NoVerification
  ELSE [NoVerification EXCEPT
          !.verified = TRUE, !.hasInfo = TRUE,
          !.info = [credentialID |-> response.credential.credentialID,
                    credentialPublicKey |-> response.credential.credentialPublicKey,
                    counter |-> response.counter]]

\* The key a signature can be checked with: a COSE key structure.
UsableKey(keyBytes) ==
  LET k == CborDecodeFirst(keyBytes)
  IN  k.ok /\ k.item.t = "map"

verifyAuthenticationResponse(response, expectedChallenge, authenticator) ==
  IF response.challenge # expectedChallenge
  THEN VerifyThrow("Unexpected authentication response challenge")
  ELSE IF (response.counter > 0 \/ authenticator.counter > 0)
          /\ response.counter <= authenticator.counter
  THEN VerifyThrow("Response counter value was lower than expected")
  ELSE IF ~UsableKey(authenticator.credentialPublicKey)
  THEN VerifyThrow("No usable public key")
  ELSE IF response.signedWith # authenticator.credentialPublicKey
  THEN [NoVerification EXCEPT !.hasInfo = TRUE]
  ELSE [NoVerification EXCEPT
          !.verified = TRUE, !.hasInfo = TRUE, !.newCounter = response.counter]

\* ---------------------------------------------------------------- state
VARIABLES
  userDB,                    \* userDB: userId -> reference to a UserRecord object
  heap,                      \* the UserRecord objects in use, by reference
  registrationChallengeMap,  \* userId -> pending registration challenge
  loginChallengeMap,         \* the login challenges mapped to true
  nextChallenge,             \* the next login challenge drawn
  reqs,                      \* the requests suspended at an await
  lastResp,                  \* the response most recently sent
  accepted,                  \* history: the completions answered verified: true
  acceptedAgain,             \* history: those so answered more than once
  call,                      \* a helper called on its own: function, input, output
  db,                        \* key-store server: db, userId -> publicKey
  storeResp,                 \* key-store server: the response most recently sent
  webAuthnKey,               \* client: the module-level webAuthnKey
  creationResponse,          \* client: the creationResponse state is set
  loginResponse,             \* client: the loginResponse state is set
  lastAlert,                 \* client: the alert most recently shown
  credentials,               \* client: the passkeys created on the device
  creating,                  \* client: the createPasskey run in progress
  authenticating,            \* client: the authenticatePasskey run in progress
  sending                    \* client: the Send UserOp onPress run in progress

vars == << userDB, heap, registrationChallengeMap, loginChallengeMap,
           nextChallenge, reqs, lastResp, accepted, acceptedAgain, call,
           db, storeResp, webAuthnKey, creationResponse, loginResponse,
           lastAlert, credentials, creating, authenticating, sending >>

\* The state of the passkey server and that of the key-store server.
serverVars == << userDB, heap, registrationChallengeMap, loginChallengeMap,
                 nextChallenge, reqs, lastResp, accepted, acceptedAgain >>

storeVars == << db, storeResp >>

appVars == << webAuthnKey, creationResponse, loginResponse, lastAlert,
              credentials, creating, authenticating, sending >>

\* A reference to a UserRecord object: the userId it was made for and the
\* number of objects made for that userId so far.
NoRef == << 0, 0 >>

\* A suspended request: the handler's locals that are live across the await
\* and the result its pending verifier call resolves to.
Req(op, userId, userRecord, challenge, counter, verification) ==
  [op |-> op, userId |-> userId, userRecord |-> userRecord,
   challenge |-> challenge, counter |-> counter, verification |-> verification]

Suspended == 1..Len(reqs)

\* The order of the suspended requests is immaterial (any of them may be
\* resumed next): reqs lists them in one fixed order.
Arrange(s) ==
  IF Len(s) < 2 THEN s
  ELSE CHOOSE t \in {[i \in 1..Len(s) |-> s[p[i]]] : p \in Permutations(1..Len(s))} : TRUE

Suspend(r) == Arrange(Append(reqs, r))

\* reqs without its i-th request
Resume(i) == Arrange(SubSeq(reqs, 1, i - 1) \o SubSeq(reqs, i + 1, Len(reqs)))

CanSuspend == Len(reqs) < MaxInflight

AllIdle == reqs = << >>

\* A response whose body names no error.
RespWithoutError(op, status, error, verified, userId, challenge) ==
  [op |-> op, status |-> status, error |-> "", verified |-> verified,
   userId |-> userId, challenge |-> challenge,
   xHex |-> << >>, yHex |-> << >>, newCounter |-> 0]

\* A response: its status and body (error, verified, challenge, xHex, yHex)
\* and, of the request it answers, the operation, the user the handler
\* resolved, the challenge it looked up and the counter it verified.
Resp(op, status, error, verified, userId, challenge) ==
  [op |-> op, status |-> status, error |-> error, verified |-> verified,
   userId |-> userId, challenge |-> challenge,
   xHex |-> << >>, yHex |-> << >>, newCounter |-> 0]

NoResp == Resp("none", 0, "", FALSE, 0, NoChallenge)

\* A record that always starts its counter at 0.
UserRecordFromZero(username, credentialID, publicKey, counter) ==
  [username |-> username,
   credentials |-> [credentialID |-> credentialID, publicKey |-> publicKey,
                    counter |-> 0]]

\* A UserRecord object.
UserRecord(username, credentialID, publicKey, counter) ==
  [username |-> username,
   credentials |-> [credentialID |-> credentialID, publicKey |-> publicKey,
                    counter |-> counter]]

\* userDB.get(userId), a stored record
Stored(userId) == heap[userDB[userId]]

\* The objects still referenced, by userDB or by a suspended request (the
\* others are garbage: nothing can read them).
Collect(h, users, rq) ==
  [ref \in {users[u] : u \in DOMAIN users} \cup {rq[i].userRecord : i \in 1..Len(rq)} |-> h[ref]]

\* The history entry of a completion answered verified: true.
Acceptance(r) == [op |-> r.op, userId |-> r.userId, challenge |-> r.challenge]

\* The User / Credential Store: the record userDB holds for each userId
Users == [u \in DOMAIN userDB |-> Stored(u)]

\* map.set(key, value) and map.delete(key)
MapSet(map, key, value) ==
  [k \in DOMAIN map \cup {key} |-> IF k = key THEN value ELSE map[k]]

\* A map.delete that removes nothing.
MapDeleteNothing(map, key) == map

MapDelete(map, key) == [k \in DOMAIN map \ {key} |-> map[k]]

\* A generator that returns the same identifier again and again.
uuidv4Repeating == CHOOSE u \in UserIds : \A v \in UserIds : u <= v

\* uuidv4(): an identifier no earlier call returned
uuidv4 == Cardinality(DOMAIN userDB) + 1

\* No helper called.
NoOutput == [throws |-> FALSE, message |-> "", xHex |-> << >>, yHex |-> << >>,
             bytes |-> << >>]

NoCall == [fn |-> "none", input |-> << >>, output |-> NoOutput]

\* The server after start-up: the three maps are empty.
InitServer ==
  /\ userDB = [u \in {} |-> NoRef]
  /\ heap = [ref \in {} |-> 0]
  /\ registrationChallengeMap = [u \in {} |-> 0]
  /\ loginChallengeMap = {}
  /\ nextChallenge = 1
  /\ reqs = << >>
  /\ lastResp = NoResp
  /\ accepted = {}
  /\ acceptedAgain = {}

\* A key-store response: its status and body (error, message, token) and the
\* request it answers.
StoreResp(op, status, error, message, token, userId, publicKey) ==
  [op |-> op, status |-> status, error |-> error, message |-> message,
   token |-> token, userId |-> userId, publicKey |-> publicKey]

NoToken == 0
NoString == 0          \* a body field that is absent or not a string

NoStoreResp == StoreResp("none", 0, "", "", NoToken, NoString, NoString)

\* The key-store server after start-up: db is empty.
InitStore ==
  /\ db = [u \in {} |-> NoString]
  /\ storeResp = NoStoreResp

NoKey == 0             \* webAuthnKey undefined
NoCredential == 0      \* no credential: passkey.create / passkey.get gave null
NoAlert == ""

\* A run of a handler: the await it is suspended at and the locals it holds.
IdleCreating == [pc |-> "idle", credential |-> NoCredential, replyError |-> FALSE]

IdleAuthenticating == [pc |-> "idle", credential |-> NoCredential]

IdleSending == [pc |-> "idle", noKey |-> FALSE, submitted |-> FALSE,
                receipt |-> FALSE]

\* The app after its first render: no key, no response, no handler running.
InitApp ==
  /\ webAuthnKey = NoKey
  /\ creationResponse = FALSE
  /\ loginResponse = FALSE
  /\ lastAlert = NoAlert
  /\ credentials = 0
  /\ creating = IdleCreating
  /\ authenticating = IdleAuthenticating
  /\ sending = IdleSending

Init == InitServer /\ call = NoCall /\ InitStore /\ InitApp

\* --------------------------------- POST /generate-registration-options
\* A placeholder that already holds a key.
PlaceholderWithKey(userName) ==
  UserRecord(userName, << "-", "w" >>, uint8ArrayToBase64Url(KeyA), 0)

\* A placeholder that already names a credential.
PlaceholderWithCredential(userName) == UserRecord(userName, << "-", "w" >>, << >>, 0)

\* The record stored before any credential exists: empty credential ID and
\* public key, counter 0.
Placeholder(userName) == UserRecord(userName, << >>, << >>, 0)

\* Up to the await on generateRegistrationOptions.
GenerateRegistrationOptionsStart ==
  \E userName \in UserNames :
    LET userId == uuidv4
        userRecord == << userId, IF userId \in DOMAIN userDB
                                 THEN userDB[userId][2] + 1 ELSE 1 >>
        newHeap == MapSet(heap, userRecord, Placeholder(userName))
    IN  /\ userId \in UserIds
        /\ CanSuspend
        /\ userDB' = MapSet(userDB, userId, userRecord)
        /\ reqs' = Suspend(Req("generate-registration-options", userId, userRecord,
                               NoChallenge, 0, NoVerification))
        /\ heap' = Collect(newHeap, userDB', reqs')
        /\ UNCHANGED << registrationChallengeMap, loginChallengeMap, nextChallenge,
                        lastResp, accepted, acceptedAgain >>

\* The same with the challenge stored under a userId that has no record.
GenerateRegistrationOptionsFinishOtherKey ==
  \E i \in Suspended :
    LET r == reqs[i] IN
    /\ r.op = "generate-registration-options"
    /\ registrationChallengeMap' =
         MapSet(registrationChallengeMap, r.userId + 1, RegistrationChallenge(r.userId))
    /\ reqs' = Resume(i)
    /\ heap' = Collect(heap, userDB, reqs')
    /\ lastResp' = Resp("generate-registration-options", 200, "", FALSE,
                        r.userId, RegistrationChallenge(r.userId))
    /\ UNCHANGED << userDB, loginChallengeMap, nextChallenge, accepted, acceptedAgain >>

\* The same with one slot for the pending challenge of all the users.
GenerateRegistrationOptionsFinishOneSlot ==
  \E i \in Suspended :
    LET r == reqs[i] IN
    /\ r.op = "generate-registration-options"
    /\ registrationChallengeMap' =
         [u \in DOMAIN registrationChallengeMap \cup {r.userId} |->
            RegistrationChallenge(r.userId)]
    /\ reqs' = Resume(i)
    /\ heap' = Collect(heap, userDB, reqs')
    /\ lastResp' = Resp("generate-registration-options", 200, "", FALSE,
                        r.userId, RegistrationChallenge(r.userId))
    /\ UNCHANGED << userDB, loginChallengeMap, nextChallenge, accepted, acceptedAgain >>

\* From the await on: the challenge is stored and the options are sent.
GenerateRegistrationOptionsFinish ==
  \E i \in Suspended :
    LET r == reqs[i] IN
    /\ r.op = "generate-registration-options"
    /\ registrationChallengeMap' =
         MapSet(registrationChallengeMap, r.userId, RegistrationChallenge(r.userId))
    /\ reqs' = Resume(i)
    /\ heap' = Collect(heap, userDB, reqs')
    /\ lastResp' = Resp("generate-registration-options", 200, "", FALSE,
                        r.userId, RegistrationChallenge(r.userId))
    /\ UNCHANGED << userDB, loginChallengeMap, nextChallenge, accepted, acceptedAgain >>

\* ------------------------------------------- POST /verify-registration
\* The handler looking the user up before the challenge.
VerifyRegistrationRequestUserFirst(userId) ==
  IF userId \notin DOMAIN userDB
  THEN /\ lastResp' = Resp("verify-registration", 404, "User not found",
                           FALSE, userId, NoChallenge)
       /\ UNCHANGED << userDB, heap, registrationChallengeMap, loginChallengeMap,
                       nextChallenge, reqs, accepted, acceptedAgain >>
  ELSE IF userId \notin DOMAIN registrationChallengeMap
  THEN /\ lastResp' = Resp("verify-registration", 400, "No challenge found for user",
                           FALSE, userId, NoChallenge)
       /\ UNCHANGED << userDB, heap, registrationChallengeMap, loginChallengeMap,
                       nextChallenge, reqs, accepted, acceptedAgain >>
  ELSE \E credential \in Attestations :
       LET expectedChallenge == registrationChallengeMap[userId]
       IN  /\ CanSuspend
           /\ reqs' = Suspend(Req("verify-registration", userId, userDB[userId],
                                  expectedChallenge, 0,
                                  verifyRegistrationResponse(credential,
                                                             expectedChallenge)))
           /\ UNCHANGED << userDB, heap, registrationChallengeMap, loginChallengeMap,
                           nextChallenge, lastResp, accepted, acceptedAgain >>

\* Up to the await on verifyRegistrationResponse, or to an early return:
\* the handler on a request for userId.
VerifyRegistrationRequest(userId) ==
  IF userId \notin DOMAIN registrationChallengeMap
  THEN /\ lastResp' = Resp("verify-registration", 400, "No challenge found for user",
                           FALSE, userId, NoChallenge)
       /\ UNCHANGED << userDB, heap, registrationChallengeMap, loginChallengeMap,
                       nextChallenge, reqs, accepted, acceptedAgain >>
  ELSE IF userId \notin DOMAIN userDB
  THEN /\ lastResp' = Resp("verify-registration", 404, "User not found",
                           FALSE, userId, registrationChallengeMap[userId])
       /\ UNCHANGED << userDB, heap, registrationChallengeMap, loginChallengeMap,
                       nextChallenge, reqs, accepted, acceptedAgain >>
  ELSE \E credential \in Attestations :
       LET expectedChallenge == registrationChallengeMap[userId]
       IN  /\ CanSuspend
           /\ reqs' = Suspend(Req("verify-registration", userId, userDB[userId],
                                  expectedChallenge, 0,
                                  verifyRegistrationResponse(credential,
                                                             expectedChallenge)))
           /\ UNCHANGED << userDB, heap, registrationChallengeMap, loginChallengeMap,
                           nextChallenge, lastResp, accepted, acceptedAgain >>

VerifyRegistrationStart ==
  \E userId \in UserIds : VerifyRegistrationRequest(userId)

\* A verify-registration that stores the credential before it looks at
\* `verified`.
VerifyRegistrationFinishStoringFirst ==
  \E i \in Suspended :
    LET r == reqs[i]
        verification == r.verification
        registrationInfo == verification.info
        newRecord == << r.userId, userDB[r.userId][2] + 1 >>
    IN  /\ r.op = "verify-registration"
        /\ reqs' = Resume(i)
        /\ IF verification.throws
           THEN /\ lastResp' = Resp("verify-registration", 400, verification.message,
                                    FALSE, r.userId, r.challenge)
                /\ heap' = Collect(heap, userDB, reqs')
                /\ UNCHANGED << userDB, registrationChallengeMap, accepted, acceptedAgain >>
           ELSE IF ~verification.verified \/ ~verification.hasInfo
           THEN /\ lastResp' = Resp("verify-registration", 400, "Registration not verified",
                                    FALSE, r.userId, r.challenge)
                /\ userDB' = MapSet(userDB, r.userId, newRecord)
                /\ heap' = Collect(
                     MapSet(heap, newRecord,
                       UserRecord(heap[r.userRecord].username,
                                  uint8ArrayToBase64Url(registrationInfo.credentialID),
                                  uint8ArrayToBase64Url(registrationInfo.credentialPublicKey),
                                  registrationInfo.counter)),
                     userDB', reqs')
                /\ UNCHANGED << registrationChallengeMap, accepted, acceptedAgain >>
           ELSE /\ userDB' = MapSet(userDB, r.userId, newRecord)
                /\ heap' = Collect(
                     MapSet(heap, newRecord,
                       UserRecord(heap[r.userRecord].username,
                                  uint8ArrayToBase64Url(registrationInfo.credentialID),
                                  uint8ArrayToBase64Url(registrationInfo.credentialPublicKey),
                                  registrationInfo.counter)),
                     userDB', reqs')
                /\ registrationChallengeMap' = MapDelete(registrationChallengeMap, r.userId)
                /\ lastResp' = Resp("verify-registration", 200, "", TRUE,
                                    r.userId, r.challenge)
                /\ accepted' = accepted \cup {Acceptance(r)}
                /\ acceptedAgain' = acceptedAgain \cup ({Acceptance(r)} \cap accepted)
        /\ UNCHANGED << loginChallengeMap, nextChallenge >>

\* From the await on.
VerifyRegistrationFinish ==
  \E i \in Suspended :
    LET r == reqs[i]
        verification == r.verification
        registrationInfo == verification.info
        newRecord == << r.userId, userDB[r.userId][2] + 1 >>
    IN  /\ r.op = "verify-registration"
        /\ reqs' = Resume(i)
        /\ IF verification.throws
           THEN /\ lastResp' = Resp("verify-registration", 400, verification.message,
                                    FALSE, r.userId, r.challenge)
                /\ heap' = Collect(heap, userDB, reqs')
                /\ UNCHANGED << userDB, registrationChallengeMap, accepted, acceptedAgain >>
           ELSE IF ~verification.verified \/ ~verification.hasInfo
           THEN /\ lastResp' = Resp("verify-registration", 400, "Registration not verified",
                                    FALSE, r.userId, r.challenge)
                /\ heap' = Collect(heap, userDB, reqs')
                /\ UNCHANGED << userDB, registrationChallengeMap, accepted, acceptedAgain >>
           ELSE /\ userDB' = MapSet(userDB, r.userId, newRecord)
                /\ heap' = Collect(
                     MapSet(heap, newRecord,
                       UserRecord(heap[r.userRecord].username,
                                  uint8ArrayToBase64Url(registrationInfo.credentialID),
                                  uint8ArrayToBase64Url(registrationInfo.credentialPublicKey),
                                  registrationInfo.counter)),
                     userDB', reqs')
                /\ registrationChallengeMap' = MapDelete(registrationChallengeMap, r.userId)
                /\ lastResp' = Resp("verify-registration", 200, "", TRUE,
                                    r.userId, r.challenge)
                /\ accepted' = accepted \cup {Acceptance(r)}
                /\ acceptedAgain' = acceptedAgain \cup ({Acceptance(r)} \cap accepted)
        /\ UNCHANGED << loginChallengeMap, nextChallenge >>

\* -------------------------------------------- GET /generate-login-options
\* The same with a single outstanding challenge, the latest.
GenerateLoginOptionsReplacing ==
  /\ nextChallenge \in LoginChallenges
  /\ loginChallengeMap' = {nextChallenge}
  /\ nextChallenge' = nextChallenge + 1
  /\ lastResp' = Resp("generate-login-options", 200, "", FALSE, 0, nextChallenge)
  /\ UNCHANGED << userDB, heap, registrationChallengeMap, reqs, accepted, acceptedAgain >>

\* Nothing is read or written before the await on
\* generateAuthenticationOptions; the handler is one step.
GenerateLoginOptions ==
  /\ nextChallenge \in LoginChallenges
  /\ loginChallengeMap' = loginChallengeMap \cup {nextChallenge}
  /\ nextChallenge' = nextChallenge + 1
  /\ lastResp' = Resp("generate-login-options", 200, "", FALSE, 0, nextChallenge)
  /\ UNCHANGED << userDB, heap, registrationChallengeMap, reqs, accepted, acceptedAgain >>

\* --------------------------------------------------- POST /verify-login
\* An `authenticator` argument that leaves the stored counter out.
AuthenticatorCounterless(userRecord) ==
  [throws |-> FALSE,
   credentialID |-> base64urlToUint8Array(userRecord.credentials.credentialID).bytes,
   credentialPublicKey |-> base64urlToUint8Array(userRecord.credentials.publicKey).bytes,
   counter |-> 0]

\* The `authenticator` argument built from the stored record.
Authenticator(userRecord) ==
  LET id == base64urlToUint8Array(userRecord.credentials.credentialID)
      key == base64urlToUint8Array(userRecord.credentials.publicKey)
  IN  [throws |-> id.throws \/ key.throws,
       credentialID |-> id.bytes,
       credentialPublicKey |-> key.bytes,
       counter |-> userRecord.credentials.counter]

\* A counter update that stores one more than the assertion reported.
StoreCounterBumped(h, userRecord, newCounter) ==
  [h EXCEPT ![userRecord].credentials.counter = newCounter + 1]

\* userRecord.credentials.counter = authenticationInfo.newCounter
StoreCounter(h, userRecord, newCounter) ==
  [h EXCEPT ![userRecord].credentials.counter = newCounter]

\* The handler looking at the user handle before the challenge.
VerifyLoginRequestUserFirst(challenge, userId) ==
  IF userId = NoResponse
  THEN /\ lastResp' = Resp("verify-login", 500, "", FALSE, NoHandle, challenge)
       /\ UNCHANGED << userDB, heap, registrationChallengeMap, loginChallengeMap,
                       nextChallenge, reqs, accepted, acceptedAgain >>
  ELSE IF userId = NoHandle
  THEN /\ lastResp' = Resp("verify-login", 400, "UserId Not Found",
                           FALSE, userId, challenge)
       /\ UNCHANGED << userDB, heap, registrationChallengeMap, loginChallengeMap,
                       nextChallenge, reqs, accepted, acceptedAgain >>
  ELSE IF userId \notin DOMAIN userDB
  THEN /\ lastResp' = Resp("verify-login", 400, "User Not Found",
                           FALSE, userId, challenge)
       /\ UNCHANGED << userDB, heap, registrationChallengeMap, loginChallengeMap,
                       nextChallenge, reqs, accepted, acceptedAgain >>
  ELSE IF challenge \notin loginChallengeMap
  THEN /\ lastResp' = Resp("verify-login", 400, "Challenge not found or expired",
                           FALSE, NoHandle, challenge)
       /\ UNCHANGED << userDB, heap, registrationChallengeMap, loginChallengeMap,
                       nextChallenge, reqs, accepted, acceptedAgain >>
  ELSE \E credential \in {a \in Assertions : a.userHandle = userId},
          authenticator \in {Authenticator(Stored(userId))} :
       LET userRecord == userDB[userId]
       IN  IF authenticator.throws
           THEN /\ lastResp' = Resp("verify-login", 400, "Invalid character",
                                    FALSE, userId, challenge)
                /\ UNCHANGED << userDB, heap, registrationChallengeMap,
                                loginChallengeMap, nextChallenge, reqs,
                                accepted, acceptedAgain >>
           ELSE /\ CanSuspend
                /\ reqs' = Suspend(Req("verify-login", userId, userRecord, challenge,
                                       Stored(userId).credentials.counter,
                                       verifyAuthenticationResponse(credential, challenge,
                                                                    authenticator)))
                /\ UNCHANGED << userDB, heap, registrationChallengeMap,
                                loginChallengeMap, nextChallenge, lastResp,
                                accepted, acceptedAgain >>

\* Up to the await on verifyAuthenticationResponse, or to an early return:
\* the handler on a request presenting challenge and a credential whose
\* response.userHandle is userId; NoHandle is a response without userHandle and
\* NoResponse a credential without response.  Reading response.userHandle of
\* the latter throws a TypeError outside the try block: no handler code answers
\* the request and the framework sends status 500 without an {error} body.
VerifyLoginRequest(challenge, userId) ==
  IF challenge \notin loginChallengeMap
  THEN /\ lastResp' = Resp("verify-login", 400, "Challenge not found or expired",
                           FALSE, NoHandle, challenge)
       /\ UNCHANGED << userDB, heap, registrationChallengeMap, loginChallengeMap,
                       nextChallenge, reqs, accepted, acceptedAgain >>
  ELSE IF userId = NoResponse
  THEN /\ lastResp' = Resp("verify-login", 500, "", FALSE, NoHandle, challenge)
       /\ UNCHANGED << userDB, heap, registrationChallengeMap, loginChallengeMap,
                       nextChallenge, reqs, accepted, acceptedAgain >>
  ELSE IF userId = NoHandle
  THEN /\ lastResp' = Resp("verify-login", 400, "UserId Not Found",
                           FALSE, userId, challenge)
       /\ UNCHANGED << userDB, heap, registrationChallengeMap, loginChallengeMap,
                       nextChallenge, reqs, accepted, acceptedAgain >>
  ELSE IF userId \notin DOMAIN userDB
  THEN /\ lastResp' = Resp("verify-login", 400, "User Not Found",
                           FALSE, userId, challenge)
       /\ UNCHANGED << userDB, heap, registrationChallengeMap, loginChallengeMap,
                       nextChallenge, reqs, accepted, acceptedAgain >>
  ELSE \E credential \in {a \in Assertions : a.userHandle = userId},
          authenticator \in {Authenticator(Stored(userId))} :
       LET userRecord == userDB[userId]
       IN  IF authenticator.throws
           THEN /\ lastResp' = Resp("verify-login", 400, "Invalid character",
                                    FALSE, userId, challenge)
                /\ UNCHANGED << userDB, heap, registrationChallengeMap,
                                loginChallengeMap, nextChallenge, reqs,
                                accepted, acceptedAgain >>
           ELSE /\ CanSuspend
                /\ reqs' = Suspend(Req("verify-login", userId, userRecord, challenge,
                                       Stored(userId).credentials.counter,
                                       verifyAuthenticationResponse(credential, challenge,
                                                                    authenticator)))
                /\ UNCHANGED << userDB, heap, registrationChallengeMap,
                                loginChallengeMap, nextChallenge, lastResp,
                                accepted, acceptedAgain >>

VerifyLoginStart ==
  \E challenge \in Challenges, userId \in Handles \cup {NoResponse} :
    VerifyLoginRequest(challenge, userId)

\* From the await on.
VerifyLoginFinish ==
  \E i \in Suspended :
    LET r == reqs[i]
        verification == r.verification
    IN  /\ r.op = "verify-login"
        /\ reqs' = Resume(i)
        /\ IF verification.throws
           THEN /\ lastResp' = Resp("verify-login", 400, verification.message,
                                    FALSE, r.userId, r.challenge)
                /\ heap' = Collect(heap, userDB, reqs')
                /\ UNCHANGED << loginChallengeMap, accepted, acceptedAgain >>
           ELSE IF ~verification.verified \/ ~verification.hasInfo
           THEN /\ lastResp' = Resp("verify-login", 400, "Login not verified",
                                    FALSE, r.userId, r.challenge)
                /\ heap' = Collect(heap, userDB, reqs')
                /\ UNCHANGED << loginChallengeMap, accepted, acceptedAgain >>
           ELSE \E key \in {parseCoseP256Key(heap[r.userRecord].credentials.publicKey)} :
                    /\ heap' = Collect(
                         StoreCounter(heap, r.userRecord, verification.newCounter),
                         userDB, reqs')
                    /\ loginChallengeMap' = loginChallengeMap \ {r.challenge}
                    /\ IF key.throws
                       THEN /\ lastResp' = Resp("verify-login", 400, key.message,
                                                FALSE, r.userId, r.challenge)
                            /\ UNCHANGED << accepted, acceptedAgain >>
                       ELSE /\ lastResp' =
                                 [Resp("verify-login", 200, "", TRUE, r.userId, r.challenge)
                                    EXCEPT !.xHex = key.xHex, !.yHex = key.yHex,
                                           !.newCounter = verification.newCounter]
                            /\ accepted' = accepted \cup {Acceptance(r)}
                            /\ acceptedAgain' = acceptedAgain \cup
                                 ({Acceptance(r)} \cap accepted)
        /\ UNCHANGED << userDB, registrationChallengeMap, nextChallenge >>

\* -------------------------------------------------------- specifications
Next ==
  \/ Cardinality(DOMAIN userDB) < MaxInterleavedUsers /\ GenerateRegistrationOptionsStart /\ UNCHANGED << call, storeVars, appVars >>
  \/ GenerateRegistrationOptionsFinish /\ UNCHANGED << call, storeVars, appVars >>
  \/ VerifyRegistrationStart /\ UNCHANGED << call, storeVars, appVars >>
  \/ VerifyRegistrationFinish /\ UNCHANGED << call, storeVars, appVars >>
  \/ GenerateLoginOptions /\ UNCHANGED << call, storeVars, appVars >>
  \/ VerifyLoginStart /\ UNCHANGED << call, storeVars, appVars >>
  \/ VerifyLoginFinish /\ UNCHANGED << call, storeVars, appVars >>

\* Requests arrive at any time: the handlers interleave at their awaits.
\* The users' records are disjoint: the interleavings kept are those of the
\* requests about MaxInterleavedUsers users.
Spec == Init /\ [][Next]_vars

\* Requests arrive one after the other: each handler runs to its response
\* before the next request is taken up.
NextSeq ==
  \/ AllIdle /\ GenerateRegistrationOptionsStart /\ UNCHANGED << call, storeVars, appVars >>
  \/ GenerateRegistrationOptionsFinish /\ UNCHANGED << call, storeVars, appVars >>
  \/ AllIdle /\ VerifyRegistrationStart /\ UNCHANGED << call, storeVars, appVars >>
  \/ VerifyRegistrationFinish /\ UNCHANGED << call, storeVars, appVars >>
  \/ AllIdle /\ GenerateLoginOptions /\ UNCHANGED << call, storeVars, appVars >>
  \/ AllIdle /\ VerifyLoginStart /\ UNCHANGED << call, storeVars, appVars >>
  \/ VerifyLoginFinish /\ UNCHANGED << call, storeVars, appVars >>

SpecSeq == Init /\ [][NextSeq]_vars

\* ------------------------------------------------- the helpers on their own
\* Inputs of the key decoders and of the base64url helpers.
\* A DER element: tag, length octets, content.
DerLength(n) ==
  IF n < 128 THEN << n >>
  ELSE IF n < 256 THEN << 129, n >>
  ELSE << 130, n \div 256, n % 256 >>

DerElement(tag, content) == << tag >> \o DerLength(Len(content)) \o content

\* AlgorithmIdentifier { id-ecPublicKey, prime256v1 }
AlgorithmIdentifier ==
  DerElement(SequenceTag, << 6, 7, 42, 134, 72, 206, 61, 2, 1,
                             6, 8, 42, 134, 72, 206, 61, 3, 1, 7 >>)

\* n bytes that differ from place to place
Fill(seed, n) == [i \in 1..n |-> (seed + 5 * i) % 256]

\* Key payloads: one byte short of an uncompressed point up to
\* MaxExtraBytes beyond it, with the uncompressed prefix (4), the compressed
\* prefix (2) or 0 in front.
KeyPayloads ==
  {<< prefix >> \o Fill(seed, n) :
     prefix \in {UncompressedPrefix, 2, 0}, seed \in {1, 100},
     n \in (UncompressedPointLength - 2)..(UncompressedPointLength - 1 + MaxExtraBytes)}

\* The payload as a BIT STRING (no unused bits) or as an OCTET STRING
KeyElement(tag, payload) ==
  DerElement(tag, IF tag = BitStringTag THEN << 0 >> \o payload ELSE payload)

KeyElements ==
  {KeyElement(tag, payload) : tag \in {BitStringTag, OctetStringTag},
                              payload \in KeyPayloads}

\* SubjectPublicKeyInfo and its malformed relatives: the key element alone,
\* algorithm and key, the two swapped, the two followed by a third element.
SpkiInputs ==
  UNION {{DerElement(SequenceTag, key),
          DerElement(SequenceTag, AlgorithmIdentifier \o key),
          DerElement(SequenceTag, key \o AlgorithmIdentifier),
          DerElement(SequenceTag, AlgorithmIdentifier \o key \o << 5, 0 >>)} :
         key \in KeyElements}
  \cup {<< >>, << SequenceTag >>, << SequenceTag, 0 >>, << 2, 1, 5 >>,
        << SequenceTag, 5, 2, 1 >>, DerElement(OctetStringTag, << 4, 1 >>)}

\* CBOR items: a small integer, a short byte string
CborInt(n) == << n >>
CborBytes(b) == << 64 + Len(b) >> \o b

\* What a COSE key may hold at a label: nothing (<< >>), or an item.
CoseValues == {<< >>, CborBytes(<< 10 >>), CborBytes(<< 11, 255 >>), CborBytes(<< >>),
               CborInt(0), CborInt(5)}

\* The entry of a label (1, or -1 - n as 32 + n), none for no value
CoseEntry(label, value) ==
  IF value = << >> THEN << >>
  ELSE << IF label >= 0 THEN label ELSE 32 + ((-1) - label) >> \o value

\* The map of the entries kty (label 1), -2 and -3 that have a value
CoseMap(kty, x, y) ==
  << 160 + Cardinality({i \in 1..3 : << kty, x, y >>[i] # << >>}) >>
  \o CoseEntry(1, kty) \o CoseEntry(-2, x) \o CoseEntry(-3, y)

CoseInputs ==
  {CoseMap(kty, x, y) : kty \in {<< >>, CborInt(2)}, x \in CoseValues, y \in CoseValues}
  \cup {<< >>, CborInt(5), CborBytes(<< 10 >>), << 162, 33, 65, 10 >>, << 255 >>}

ByteSamples == {0, 63, 251, 255}

ByteStrings == UNION {[1..n -> ByteSamples] : n \in 0..MaxBytes}

HelperInputs ==
  SpkiInputs \cup CoseInputs \cup ByteStrings \cup SigningKeys
  \cup {c.credentialID : c \in Credentials}

InitHelpers ==
  /\ InitServer
  /\ InitStore
  /\ InitApp
  /\ call \in {[NoCall EXCEPT !.input = b] : b \in HelperInputs}

\* parseP256SpkiBase64 on the base64url text of the input, as the client
\* receives a public key
CallParseP256SpkiBase64 ==
  /\ call.fn = "none"
  /\ \E r \in {parseP256SpkiBase64(uint8ArrayToBase64Url(call.input))} :
       call' = [call EXCEPT !.fn = "parseP256SpkiBase64",
                            !.output = [throws |-> r.throws, message |-> r.message,
                                        xHex |-> r.xHex, yHex |-> r.yHex,
                                        bytes |-> << >>]]
  /\ UNCHANGED << serverVars, storeVars, appVars >>

\* parseCoseP256Key on the base64url text of the input, as the server stores
\* a public key
CallParseCoseP256Key ==
  /\ call.fn = "none"
  /\ \E r \in {parseCoseP256Key(uint8ArrayToBase64Url(call.input))} :
       call' = [call EXCEPT !.fn = "parseCoseP256Key",
                            !.output = [throws |-> r.throws, message |-> r.message,
                                        xHex |-> r.xHex, yHex |-> r.yHex,
                                        bytes |-> << >>]]
  /\ UNCHANGED << serverVars, storeVars, appVars >>

\* base64urlToUint8Array(uint8ArrayToBase64Url(input))
CallBase64Url ==
  /\ call.fn = "none"
  /\ \E r \in {base64urlToUint8Array(uint8ArrayToBase64Url(call.input))} :
       call' = [call EXCEPT !.fn = "base64url",
                            !.output = [NoOutput EXCEPT !.throws = r.throws,
                                                        !.bytes = r.bytes]]
  /\ UNCHANGED << serverVars, storeVars, appVars >>

NextHelpers ==
  \/ CallParseP256SpkiBase64
  \/ CallParseCoseP256Key
  \/ CallBase64Url

\* One helper is called once on one input.
SpecHelpers == InitHelpers /\ [][NextHelpers]_vars

\* ------------------------------------------------- the key-store server
StoreUserIds == 1..MaxStoreUsers
PublicKeys == 1..MaxPublicKeys

\* registerSchema, loginSchema: the fields are strings
registerSchema(userId, publicKey) == userId # NoString /\ publicKey # NoString

loginSchema(userId) == userId # NoString

\* The token c.jwt.sign({ userId }) returns: its payload.
sign(userId) == userId

\* What `await c.jwt.sign(...)` comes to: the token, or a TypeError if the
\* context has no jwt member (FALSE).
SignOutcomes == {TRUE, FALSE}

\* A /register that stores the key whether or not the userId is known.
RegisterOverwriting(userId, publicKey) ==
  /\ registerSchema(userId, publicKey)
  /\ db' = MapSet(db, userId, publicKey)
  /\ storeResp' = StoreResp("register", 201, "", "Passkey registered successfully",
                            NoToken, userId, publicKey)

\* POST /register with a body the validator passes
Register(userId, publicKey) ==
  /\ registerSchema(userId, publicKey)
  /\ IF userId \in DOMAIN db
     THEN /\ storeResp' = StoreResp("register", 400, "User already exists", "",
                                    NoToken, userId, publicKey)
          /\ UNCHANGED db
     ELSE /\ db' = MapSet(db, userId, publicKey)
          /\ storeResp' = StoreResp("register", 201, "",
                                    "Passkey registered successfully",
                                    NoToken, userId, publicKey)

\* POST /register with a body the validator refuses: the handler is not run
RegisterInvalid(userId, publicKey) ==
  /\ ~registerSchema(userId, publicKey)
  /\ storeResp' = StoreResp("register", 400, "ZodError", "", NoToken,
                            userId, publicKey)
  /\ UNCHANGED db

\* POST /login with a body the validator passes
Login(userId) ==
  /\ loginSchema(userId)
  /\ IF userId \notin DOMAIN db
     THEN storeResp' = StoreResp("login", 404, "User not found", "", NoToken,
                                 userId, NoString)
     ELSE \E signed \in SignOutcomes :
            storeResp' = IF signed
                         THEN StoreResp("login", 200, "", "", sign(userId),
                                        userId, NoString)
                         ELSE StoreResp("login", 500, "", "", NoToken,
                                        userId, NoString)
  /\ UNCHANGED db

\* POST /login with a body the validator refuses
LoginInvalid ==
  /\ storeResp' = StoreResp("login", 400, "ZodError", "", NoToken,
                            NoString, NoString)
  /\ UNCHANGED db

\* GET /protected: jwtMiddleware lets a request with a signed token through
Protected(token) ==
  /\ storeResp' = IF token = NoToken
                  THEN StoreResp("protected", 401, "", "", NoToken,
                                 NoString, NoString)
                  ELSE StoreResp("protected", 200, "", "Welcome", token,
                                 token, NoString)
  /\ UNCHANGED db

RegisterRequest ==
  \E userId \in StoreUserIds, publicKey \in PublicKeys : Register(userId, publicKey)

RegisterInvalidRequest ==
  \E userId \in StoreUserIds \cup {NoString}, publicKey \in PublicKeys \cup {NoString} :
    RegisterInvalid(userId, publicKey)

LoginRequest == \E userId \in StoreUserIds : Login(userId)

ProtectedRequest == \E token \in {sign(u) : u \in StoreUserIds} \cup {NoToken} : Protected(token)

NextKeyStore ==
  \/ RegisterRequest /\ UNCHANGED << serverVars, call, appVars >>
  \/ RegisterInvalidRequest /\ UNCHANGED << serverVars, call, appVars >>
  \/ LoginRequest /\ UNCHANGED << serverVars, call, appVars >>
  \/ LoginInvalid /\ UNCHANGED << serverVars, call, appVars >>
  \/ ProtectedRequest /\ UNCHANGED << serverVars, call, appVars >>

\* The key-store server takes one request after the other (its handlers
\* change db before their only await).
SpecKeyStore == Init /\ [][NextKeyStore]_vars

\* ------------------------------------------------------- the client app
\* What an awaited call comes to.  A fetch resolves to a JSON body with or
\* without an error member, or rejects (no network, a body that is not
\* JSON); passkey.create / passkey.get resolve to a credential or to null,
\* or reject; the SDK calls resolve or reject.
Replies == {"ok", "error", "throws"}
Ceremonies == {"credential", "null", "throws"}

\* Leaves a run with the alert of its catch block.
Caught(title) == lastAlert' = title

\* createPasskey, up to the await of the first fetch
CreatePasskeyPress ==
  /\ creating.pc = "idle"
  /\ creating' = [IdleCreating EXCEPT !.pc = "options"]
  /\ UNCHANGED << webAuthnKey, creationResponse, loginResponse, lastAlert,
                  credentials, authenticating, sending >>

\* the registration options arrive: passkey.create is called
CreatePasskeyOptions(reply) ==
  /\ creating.pc = "options"
  /\ IF reply = "ok"
     THEN /\ creating' = [creating EXCEPT !.pc = "create"]
          /\ UNCHANGED lastAlert
     ELSE /\ creating' = IdleCreating
          /\ Caught("Failed to create passkey")
  /\ UNCHANGED << webAuthnKey, creationResponse, loginResponse, credentials,
                  authenticating, sending >>

\* passkey.create resolves: the states are set and the credential is sent
\* to /verify-registration
CreatePasskeyCreated(ceremony) ==
  /\ creating.pc = "create"
  /\ IF ceremony = "credential"
     THEN /\ credentials < MaxCredentials
          /\ credentials' = credentials + 1
          /\ creationResponse' = TRUE
          /\ creating' = [creating EXCEPT !.pc = "verify",
                                          !.credential = credentials + 1]
          /\ UNCHANGED lastAlert
     ELSE /\ creating' = IdleCreating
          /\ Caught("Failed to create passkey")
          /\ UNCHANGED << credentials, creationResponse >>
  /\ UNCHANGED << webAuthnKey, loginResponse, authenticating, sending >>

\* the verify-registration reply arrives: an error in it is shown, and the
\* run goes on to parsePasskeyCred and toWebAuthnKey either way
CreatePasskeyVerified(reply, parsed) ==
  /\ creating.pc = "verify"
  /\ IF reply # "throws" /\ parsed
     THEN /\ creating' = [creating EXCEPT !.pc = "toWebAuthnKey",
                                          !.replyError = (reply = "error")]
          /\ IF reply = "error" THEN lastAlert' = "Registration failed"
             ELSE UNCHANGED lastAlert
     ELSE /\ creating' = IdleCreating
          /\ Caught("Failed to create passkey")
  /\ UNCHANGED << webAuthnKey, creationResponse, loginResponse, credentials,
                  authenticating, sending >>

\* toWebAuthnKey resolves: the global webAuthnKey is assigned
CreatePasskeyToWebAuthnKey(resolved) ==
  /\ creating.pc = "toWebAuthnKey"
  /\ creating' = IdleCreating
  /\ IF resolved
     THEN webAuthnKey' = creating.credential /\ UNCHANGED lastAlert
     ELSE Caught("Failed to create passkey") /\ UNCHANGED webAuthnKey
  /\ UNCHANGED << creationResponse, loginResponse, credentials,
                  authenticating, sending >>

\* authenticatePasskey, up to the await of the first fetch
AuthenticatePasskeyPress ==
  /\ authenticating.pc = "idle"
  /\ authenticating' = [IdleAuthenticating EXCEPT !.pc = "options"]
  /\ UNCHANGED << webAuthnKey, creationResponse, loginResponse, lastAlert,
                  credentials, creating, sending >>

\* the login options arrive: passkey.get is called
AuthenticatePasskeyOptions(reply) ==
  /\ authenticating.pc = "options"
  /\ IF reply = "ok"
     THEN /\ authenticating' = [authenticating EXCEPT !.pc = "get"]
          /\ UNCHANGED lastAlert
     ELSE /\ authenticating' = IdleAuthenticating
          /\ Caught(IF reply = "error" THEN "Error generating login options"
                    ELSE "Failed to authenticate passkey")
  /\ UNCHANGED << webAuthnKey, creationResponse, loginResponse, credentials,
                  creating, sending >>

\* passkey.get resolves with a passkey of the device, or with null: the
\* result is sent to /verify-login
AuthenticatePasskeyGot(ceremony, credential) ==
  /\ authenticating.pc = "get"
  /\ IF ceremony = "credential"
     THEN /\ credential \in 1..credentials
          /\ loginResponse' = TRUE
          /\ authenticating' = [authenticating EXCEPT !.pc = "verify",
                                                      !.credential = credential]
          /\ UNCHANGED lastAlert
     ELSE /\ credential = NoCredential
          /\ IF ceremony = "null"
             THEN /\ authenticating' = [authenticating EXCEPT !.pc = "verify"]
                  /\ UNCHANGED lastAlert
             ELSE /\ authenticating' = IdleAuthenticating
                  /\ Caught("Failed to authenticate passkey")
          /\ UNCHANGED loginResponse
  /\ UNCHANGED << webAuthnKey, creationResponse, credentials, creating, sending >>

\* the verify-login reply arrives: parseLoginCred is called on the
\* credential and the reply's xHex, yHex
AuthenticatePasskeyVerified(reply, parsed) ==
  /\ authenticating.pc = "verify"
  /\ IF reply # "throws" /\ parsed /\ authenticating.credential # NoCredential
     THEN /\ authenticating' = [authenticating EXCEPT !.pc = "toWebAuthnKey"]
          /\ UNCHANGED lastAlert
     ELSE /\ authenticating' = IdleAuthenticating
          /\ Caught("Failed to authenticate passkey")
  /\ UNCHANGED << webAuthnKey, creationResponse, loginResponse, credentials,
                  creating, sending >>

\* toWebAuthnKey resolves: the global webAuthnKey is assigned
AuthenticatePasskeyToWebAuthnKey(resolved) ==
  /\ authenticating.pc = "toWebAuthnKey"
  /\ authenticating' = IdleAuthenticating
  /\ IF resolved
     THEN webAuthnKey' = authenticating.credential /\ UNCHANGED lastAlert
     ELSE Caught("Failed to authenticate passkey") /\ UNCHANGED webAuthnKey
  /\ UNCHANGED << creationResponse, loginResponse, credentials, creating, sending >>

\* The Send UserOp button is rendered.
SendUserOpShown == creationResponse \/ loginResponse

\* onPress of Send UserOp: sendUserOp() is called and runs to its first
\* await, or to its return where no webAuthnKey is set
SendUserOpPress ==
  /\ SendUserOpShown
  /\ sending.pc = "idle"
  /\ IF webAuthnKey = NoKey
     THEN /\ lastAlert' = "No webAuthnKey found. Register a passkey first."
          /\ sending' = [IdleSending EXCEPT !.pc = "returned", !.noKey = TRUE]
     ELSE /\ sending' = [IdleSending EXCEPT !.pc = "toPasskeyValidator"]
          /\ UNCHANGED lastAlert
  /\ UNCHANGED << webAuthnKey, creationResponse, loginResponse, credentials,
                  creating, authenticating >>

\* An await of sendUserOp resolves or rejects; a rejection reaches the catch
\* block of onPress.
SendUserOpAwait(from, to, resolved) ==
  /\ sending.pc = from
  /\ IF resolved
     THEN /\ sending' = [sending EXCEPT
                           !.pc = to,
                           !.submitted = @ \/ from = "sendUserOperation",
                           !.receipt = @ \/ from = "waitForUserOperationReceipt"]
          /\ UNCHANGED lastAlert
     ELSE /\ sending' = IdleSending
          /\ Caught("Error sending userOp")
  /\ UNCHANGED << webAuthnKey, creationResponse, loginResponse, credentials,
                  creating, authenticating >>

SendUserOpValidator(resolved) ==
  SendUserOpAwait("toPasskeyValidator", "createKernelAccount", resolved)

SendUserOpAccount(resolved) ==
  SendUserOpAwait("createKernelAccount", "encodeCalls", resolved)

SendUserOpEncoded(resolved) ==
  SendUserOpAwait("encodeCalls", "sendUserOperation", resolved)

SendUserOpSubmitted(resolved) ==
  SendUserOpAwait("sendUserOperation", "waitForUserOperationReceipt", resolved)

SendUserOpReceipt(resolved) ==
  SendUserOpAwait("waitForUserOperationReceipt", "returned", resolved)

\* `await sendUserOp()` resumes in onPress: the success alert
SendUserOpReturned ==
  /\ sending.pc = "returned"
  /\ sending' = IdleSending
  /\ lastAlert' = "UserOp sent!"
  /\ UNCHANGED << webAuthnKey, creationResponse, loginResponse, credentials,
                  creating, authenticating >>

NextApp ==
  \/ CreatePasskeyPress /\ UNCHANGED << serverVars, call, storeVars >>
  \/ (\E reply \in Replies : CreatePasskeyOptions(reply))
       /\ UNCHANGED << serverVars, call, storeVars >>
  \/ (\E ceremony \in Ceremonies : CreatePasskeyCreated(ceremony))
       /\ UNCHANGED << serverVars, call, storeVars >>
  \/ (\E reply \in Replies, parsed \in BOOLEAN : CreatePasskeyVerified(reply, parsed))
       /\ UNCHANGED << serverVars, call, storeVars >>
  \/ (\E resolved \in BOOLEAN : CreatePasskeyToWebAuthnKey(resolved))
       /\ UNCHANGED << serverVars, call, storeVars >>
  \/ AuthenticatePasskeyPress /\ UNCHANGED << serverVars, call, storeVars >>
  \/ (\E reply \in Replies : AuthenticatePasskeyOptions(reply))
       /\ UNCHANGED << serverVars, call, storeVars >>
  \/ (\E ceremony \in Ceremonies, credential \in 0..MaxCredentials :
        AuthenticatePasskeyGot(ceremony, credential))
       /\ UNCHANGED << serverVars, call, storeVars >>
  \/ (\E reply \in Replies, parsed \in BOOLEAN : AuthenticatePasskeyVerified(reply, parsed))
       /\ UNCHANGED << serverVars, call, storeVars >>
  \/ (\E resolved \in BOOLEAN : AuthenticatePasskeyToWebAuthnKey(resolved))
       /\ UNCHANGED << serverVars, call, storeVars >>
  \/ SendUserOpPress /\ UNCHANGED << serverVars, call, storeVars >>
  \/ (\E resolved \in BOOLEAN : SendUserOpValidator(resolved))
       /\ UNCHANGED << serverVars, call, storeVars >>
  \/ (\E resolved \in BOOLEAN : SendUserOpAccount(resolved))
       /\ UNCHANGED << serverVars, call, storeVars >>
  \/ (\E resolved \in BOOLEAN : SendUserOpEncoded(resolved))
       /\ UNCHANGED << serverVars, call, storeVars >>
  \/ (\E resolved \in BOOLEAN : SendUserOpSubmitted(resolved))
       /\ UNCHANGED << serverVars, call, storeVars >>
  \/ (\E resolved \in BOOLEAN : SendUserOpReceipt(resolved))
       /\ UNCHANGED << serverVars, call, storeVars >>
  \/ SendUserOpReturned /\ UNCHANGED << serverVars, call, storeVars >>

\* The three handlers are started by presses at any time and interleave at
\* their awaits; of each handler one run is in progress at a time.
SpecApp == Init /\ [][NextApp]_vars

\* ------------------------------------------------------------ properties
\* The i-th suspended request is the one this step answers.
Answers(i) == reqs' = Resume(i)

\* C1: of two overlapping verify-login requests presenting the same
\* challenge only one is answered verified: true. (Requests answered
\* verified: true for one login challenge overlap: the first answer deletes
\* the challenge.)
C1_SameChallengeVerifiedOnce ==
  \A a \in acceptedAgain : a.op # "verify-login"

\* C2: when the requests are handled one after the other, no challenge is
\* answered verified: true twice, and a completion that presents a
\* challenge already answered so fails with the challenge-not-found error.
C2_NoChallengeAcceptedTwice ==
  /\ acceptedAgain = {}
  /\ \A a \in accepted :
       IF a.op = "verify-registration"
       THEN (lastResp.op = a.op /\ lastResp.userId = a.userId /\ ~lastResp.verified)
              => lastResp.error = "No challenge found for user"
       ELSE (lastResp.op = a.op /\ lastResp.challenge = a.challenge /\ ~lastResp.verified)
              => lastResp.error = "Challenge not found or expired"

C2_Replayed ==
  /\ \E a \in accepted :
       /\ a.op = "verify-login" /\ lastResp.op = a.op /\ lastResp.challenge = a.challenge
       /\ lastResp.error = "Challenge not found or expired"
  /\ \E a \in accepted : a.op = "verify-registration"

\* C3: a verify-registration that found the user's pending challenge and
\* then failed has removed the challenge.
C3_FailedRegistrationConsumesChallenge ==
  (lastResp.op = "verify-registration" /\ ~lastResp.verified
     /\ lastResp.challenge # NoChallenge)
    => lastResp.userId \notin DOMAIN registrationChallengeMap

\* C4: a verify-login that found its challenge has removed it, also when it
\* then failed.
C4_FailedLoginConsumesChallenge ==
  (lastResp.op = "verify-login" /\ ~lastResp.verified
     /\ lastResp.error # "Challenge not found or expired")
    => lastResp.challenge \notin loginChallengeMap

\* C5: a verify-login that read a stored counter N > 0 is answered
\* verified: true, or changes a stored counter, only if its assertion
\* reported a counter above N: one reporting N or less is not verified and
\* leaves the counter at N.
C5_ReplayedCounterRejected ==
  [][\A i \in Suspended :
       LET r == reqs[i] IN
       (r.op = "verify-login" /\ Answers(i) /\ r.counter > 0
          /\ (lastResp'.verified \/ Users' # Users))
         => r.verification.newCounter > r.counter]_vars

C5_Replay ==
  /\ lastResp.op = "verify-login"
  /\ lastResp.error = "Response counter value was lower than expected"
  /\ Stored(lastResp.userId).credentials.counter > 0

\* C6: after a verify-login answered verified: true, the stored counter of
\* the user it resolved is the counter the assertion reported.
C6_CounterStored ==
  (lastResp.op = "verify-login" /\ lastResp.verified)
    => Stored(lastResp.userId).credentials.counter = lastResp.newCounter

\* C7: a verify-login that read a stored counter of zero is not rejected as
\* a replay; when its assertion reports zero and is otherwise valid (and the
\* stored key is a P-256 key) it is answered verified: true and the stored
\* counter, when still zero as the answer is made, stays zero.
C7_ZeroCounterAccepted ==
  [][\A i \in Suspended :
       LET r == reqs[i] IN
       (r.op = "verify-login" /\ Answers(i) /\ r.counter = 0)
         => /\ r.verification.message # "Response counter value was lower than expected"
            /\ (/\ r.verification.verified /\ r.verification.newCounter = 0
                /\ ~parseCoseP256Key(heap[r.userRecord].credentials.publicKey).throws)
                 => /\ lastResp'.verified /\ lastResp'.status = 200
                    /\ Stored(r.userId).credentials.counter = 0
                         => heap'[userDB'[r.userId]].credentials.counter = 0]_vars

C7_ZeroLogin ==
  /\ lastResp.op = "verify-login" /\ lastResp.verified /\ lastResp.newCounter = 0
  /\ Stored(lastResp.userId).credentials.counter = 0

\* C8: whatever the interleaving, the counter of a stored credential record
\* never decreases.
C8_CounterNeverDecreases ==
  [][\A u \in DOMAIN userDB :
       userDB'[u] = userDB[u]
         => heap'[userDB'[u]].credentials.counter >= Stored(u).credentials.counter]_vars

\* C9: of two overlapping verify-login requests for one user that present
\* different challenges and report the same counter N + 1, the stored
\* counter being N > 0, at most one is answered verified: true. (The step
\* answers the second: it read N, and the record already holds the N + 1 of
\* the first, answered just before.)
C9_SameCounterVerifiedOnce ==
  [][\A i \in Suspended :
       LET r == reqs[i] IN
       (/\ r.op = "verify-login" /\ Answers(i) /\ lastResp'.verified
        /\ r.counter > 0 /\ r.verification.newCounter = r.counter + 1
        /\ lastResp.op = "verify-login" /\ lastResp.verified
        /\ lastResp.userId = r.userId /\ lastResp.challenge # r.challenge)
         => lastResp.newCounter # r.verification.newCounter]_vars

\* C10: a verify-registration answered with an error leaves the
\* User / Credential Store as it was.
C10_FailedRegistrationStoresNothing ==
  [][(/\ lastResp'.op = "verify-registration" /\ ~lastResp'.verified
      /\ (lastResp' # lastResp \/ Len(reqs') < Len(reqs)))
       => Users' = Users]_vars

C10_FailedRegistration ==
  /\ lastResp.op = "verify-registration"
  /\ lastResp.error = "Registration not verified"
  /\ Stored(lastResp.userId).credentials.credentialID = << >>

\* C11: a verify-login answered with an error leaves the stored signature
\* counter of every user as it was, the answer given after a successful
\* verification whose public key cannot be decoded included.
C11_FailedLoginKeepsCounters ==
  [][(/\ lastResp'.op = "verify-login" /\ ~lastResp'.verified
      /\ (lastResp' # lastResp \/ Len(reqs') < Len(reqs)))
       => \A u \in DOMAIN userDB :
            heap'[userDB'[u]].credentials.counter = Stored(u).credentials.counter]_vars

\* C12: a user record holds a non-empty credential ID or public key only if a
\* verify-registration for that user was answered verified; until then it is
\* the placeholder generate-registration-options created: empty credential
\* ID, empty public key, counter 0.
C12_CredentialOnlyByRegistration ==
  \A u \in DOMAIN userDB :
    \/ \E a \in accepted : a.op = "verify-registration" /\ a.userId = u
    \/ Stored(u).credentials = [credentialID |-> << >>, publicKey |-> << >>,
                                counter |-> 0]

C12_Populated ==
  \E u \in DOMAIN userDB :
    /\ Stored(u).credentials.credentialID # << >>
    /\ Stored(u).credentials.publicKey # << >>
    /\ \E a \in accepted : a.op = "verify-registration" /\ a.userId = u

\* C13: once a verified verify-registration has populated a record, its
\* credential ID and public key never change, and its counter changes only in
\* the step that answers a verify-login with verified, whatever requests are
\* in progress together.
C13_CredentialFrame ==
  [][\A u \in DOMAIN userDB :
       Stored(u).credentials.credentialID # << >> =>
         LET before == Stored(u).credentials
             after == heap'[userDB'[u]].credentials
         IN  /\ after.credentialID = before.credentialID
             /\ after.publicKey = before.publicKey
             /\ after.counter # before.counter =>
                  lastResp'.op = "verify-login" /\ lastResp'.verified]_vars

\* C14: in the step that answers a verify-registration with verified, the
\* stored record of that user holds the credential ID, the public key and the
\* counter of the verified attestation, replacing what was stored, its
\* username is the one it had, and the user has no pending registration
\* challenge.
C14_RegistrationStored ==
  [][\A i \in Suspended :
       LET r == reqs[i]
           info == r.verification.info
           after == heap'[userDB'[r.userId]]
       IN  (r.op = "verify-registration" /\ Answers(i) /\ lastResp'.verified) =>
             /\ base64urlToUint8Array(after.credentials.credentialID)
                  = [throws |-> FALSE, bytes |-> info.credentialID]
             /\ base64urlToUint8Array(after.credentials.publicKey)
                  = [throws |-> FALSE, bytes |-> info.credentialPublicKey]
             /\ after.credentials.counter = info.counter
             /\ after.username = Stored(r.userId).username
             /\ r.userId \notin DOMAIN registrationChallengeMap']_vars

C14_Replaced ==
  /\ lastResp.op = "verify-registration" /\ lastResp.verified
  /\ Stored(lastResp.userId).credentials.counter > 0
  /\ lastResp.userId \notin DOMAIN registrationChallengeMap

\* C15: end to end, one request at a time: a user registered with a valid
\* attestation embedding the P-256 key KeyA and counter 0 who then answers a
\* login challenge with a valid assertion reporting counter 1 under their
\* user handle is answered verified, the stored counter is 1 afterwards, and
\* the answer carries the hex text of the X and Y coordinates of KeyA.
C15_RegisterThenLogin ==
  [][\A i \in Suspended :
       LET r == reqs[i]
       IN  (/\ r.op = "verify-login" /\ Answers(i)
            /\ \E a \in accepted : a.op = "verify-registration" /\ a.userId = r.userId
            /\ Authenticator(Stored(r.userId)).credentialPublicKey = KeyA
            /\ r.counter = 0
            /\ r.verification.verified /\ r.verification.newCounter = 1) =>
             /\ lastResp'.verified /\ lastResp'.status = 200
             /\ lastResp'.userId = r.userId
             /\ heap'[userDB'[r.userId]].credentials.counter = 1
             /\ lastResp'.xHex = << "0", "a" >>
             /\ lastResp'.yHex = << "0", "b" >>]_vars

C15_LoggedIn ==
  /\ lastResp.op = "verify-login" /\ lastResp.verified
  /\ lastResp.xHex = << "0", "a" >> /\ lastResp.yHex = << "0", "b" >>
  /\ lastResp.newCounter = 1
  /\ Stored(lastResp.userId).credentials.counter = 1
  /\ accepted = {[op |-> "verify-registration", userId |-> lastResp.userId,
                  challenge |-> RegistrationChallenge(lastResp.userId)],
                 [op |-> "verify-login", userId |-> lastResp.userId,
                  challenge |-> lastResp.challenge]}

\* C16 as stated: every verify-login whose assertion carries no user handle,
\* or a handle that is in no user record, is answered with a user-not-found
\* error, and no record changes.
C16_UnknownHandleRejected ==
  [][\A challenge \in Challenges, userId \in Handles :
       (/\ userId = NoHandle \/ userId \notin DOMAIN userDB
        /\ VerifyLoginRequest(challenge, userId)) =>
         /\ lastResp'.error \in {"UserId Not Found", "User Not Found"}
         /\ lastResp'.status = 400 /\ ~lastResp'.verified
         /\ Users' = Users]_vars

\* C16 amended: a verify-login presenting an outstanding challenge whose
\* assertion carries no user handle, or a handle that is in no user record,
\* is answered with a user-not-found error, and no record changes.
C16_UnknownHandleRejectedOnceChallengeFound ==
  [][\A challenge \in loginChallengeMap, userId \in Handles :
       (/\ userId = NoHandle \/ userId \notin DOMAIN userDB
        /\ VerifyLoginRequest(challenge, userId)) =>
         /\ lastResp'.error \in {"UserId Not Found", "User Not Found"}
         /\ lastResp'.status = 400 /\ ~lastResp'.verified
         /\ Users' = Users]_vars

C16_UnknownHandle ==
  /\ lastResp.op = "verify-login"
  /\ lastResp.error = "User Not Found"
  /\ lastResp.userId \notin DOMAIN userDB
  /\ lastResp.challenge \in loginChallengeMap
  /\ userDB # << >>

\* C17: a verify-registration for a userId with no pending registration
\* challenge and a verify-login presenting a challenge that is not
\* outstanding are answered with the challenge-not-found error of their
\* operation, the same whether the challenge was never issued or was
\* consumed before, and leave every store as it was.
C17_ChallengeNotFound ==
  [][/\ \A userId \in UserIds :
          (/\ userId \notin DOMAIN registrationChallengeMap
           /\ VerifyRegistrationRequest(userId)) =>
            /\ lastResp'.error = "No challenge found for user"
            /\ lastResp'.status = 400 /\ ~lastResp'.verified
            /\ UNCHANGED << userDB, heap, registrationChallengeMap,
                            loginChallengeMap >>
     /\ \A challenge \in Challenges \ loginChallengeMap,
           userId \in Handles \cup {NoResponse} :
          VerifyLoginRequest(challenge, userId) =>
            /\ lastResp'.error = "Challenge not found or expired"
            /\ lastResp'.status = 400 /\ ~lastResp'.verified
            /\ UNCHANGED << userDB, heap, registrationChallengeMap,
                            loginChallengeMap >>]_vars

C17_ConsumedChallengePresented ==
  /\ lastResp.op = "verify-registration"
  /\ lastResp.error = "No challenge found for user"
  /\ \E a \in accepted : a.op = "verify-registration" /\ a.userId = lastResp.userId

\* C18: every verify-registration and verify-login that fails is answered by
\* the handler with a structured {error} body (status 400 or 404); no failure
\* leaves the handler as an uncaught exception.
C18_FailuresAreStructured ==
  (lastResp.op \in {"verify-registration", "verify-login"} /\ ~lastResp.verified)
    => lastResp.error # "" /\ lastResp.status \in {400, 404}

\* The registration lifecycle of a user: 0 Unregistered (no record, or the
\* placeholder before its challenge is stored), 1 ChallengeIssued (placeholder
\* with a pending registration challenge), 2 Verified (credential stored).
RegistrationPhase(u) ==
  IF u \notin DOMAIN userDB THEN 0
  ELSE IF Stored(u).credentials.credentialID # << >> THEN 2
  ELSE IF u \in DOMAIN registrationChallengeMap THEN 1
  ELSE 0

\* C19: each user only moves forward through Unregistered, ChallengeIssued,
\* Verified: a record once created is never deleted, a Verified user never
\* again has a pending registration challenge or an empty credential, and a
\* Verified user has no pending registration challenge.
C19_RegistrationMovesForward ==
  [][/\ \A u \in DOMAIN userDB :
          /\ u \in DOMAIN userDB'
          /\ RegistrationPhase(u)' >= RegistrationPhase(u)
     /\ \A u \in DOMAIN userDB' :
          RegistrationPhase(u)' = 2 => u \notin DOMAIN registrationChallengeMap']_vars

C19_VerifiedLater ==
  \E u \in DOMAIN userDB :
    /\ RegistrationPhase(u) = 2
    /\ lastResp.op = "generate-login-options"
    /\ AllIdle

C21_LoginChallengeUnbound ==
  [][/\ nextChallenge' # nextChallenge =>
          /\ loginChallengeMap' = loginChallengeMap \cup {lastResp'.challenge}
          /\ lastResp'.challenge \notin loginChallengeMap
          /\ UNCHANGED << userDB, heap, registrationChallengeMap >>
     /\ \A challenge \in loginChallengeMap, userId \in DOMAIN userDB :
          RegistrationPhase(userId) = 2 =>
            /\ (Len(reqs') >= Len(reqs) /\ VerifyLoginRequest(challenge, userId)) =>
                 /\ lastResp' = lastResp
                 /\ \E i \in DOMAIN reqs' :
                      /\ reqs'[i].op = "verify-login"
                      /\ reqs'[i].challenge = challenge
                      /\ reqs'[i].userId = userId
            /\ \A authenticator \in {Authenticator(Stored(userId))} :
               \A credential \in {a \in Assertions : /\ a.userHandle = userId
                                                     /\ a.challenge = challenge} :
                 (/\ credential.signedWith = authenticator.credentialPublicKey
                  /\ credential.counter > authenticator.counter) =>
                   verifyAuthenticationResponse(credential, challenge,
                                                authenticator).verified]_vars

C21_EitherUserEitherChallenge ==
  \E a, b \in accepted :
    /\ a.op = "verify-login" /\ b.op = "verify-login"
    /\ a.userId > b.userId
    /\ a.challenge < b.challenge

C23_MalformedSpkiRejected ==
  call.fn = "parseP256SpkiBase64" =>
    /\ call.output.throws => call.output.xHex = << >> /\ call.output.yHex = << >>
    /\ \A key \in KeyElements \cup {<< >>} :
         call.input = DerElement(SequenceTag, key) =>
           /\ call.output.throws
           /\ call.output.message = "Not a valid SubjectPublicKeyInfo sequence."
    /\ \A payload \in KeyPayloads :
         /\ call.input \in {DerElement(SequenceTag,
                                       AlgorithmIdentifier
                                       \o KeyElement(OctetStringTag, payload)),
                            DerElement(SequenceTag,
                                       KeyElement(BitStringTag, payload)
                                       \o AlgorithmIdentifier)} =>
              /\ call.output.throws
              /\ call.output.message
                   = "SPKI does not contain a BitString in the second element."
         /\ call.input = DerElement(SequenceTag,
                                    AlgorithmIdentifier
                                    \o KeyElement(BitStringTag, payload)) =>
              /\ Len(payload) < 65 =>
                   /\ call.output.throws
                   /\ call.output.message = "Public key bit string is too short."
              /\ (Len(payload) >= 65 /\ payload[1] # 4) =>
                   /\ call.output.throws
                   /\ call.output.message
                        = "Expected uncompressed format (0x04) at start of public key data."

C23_CompressedPrefixRejected ==
  /\ call.fn = "parseP256SpkiBase64"
  /\ call.output.throws
  /\ call.output.message
       = "Expected uncompressed format (0x04) at start of public key data."
  /\ call.output.xHex = << >> /\ call.output.yHex = << >>

\* C24 as stated: for every CBOR map with entries at labels -2 and -3
\* parseCoseP256Key returns the hex text of the two entries; for every map
\* without label -2 or without label -3, and for every input that is not a
\* CBOR map, it throws and returns no coordinates.
C24_CoseCoordinates ==
  call.fn = "parseCoseP256Key" =>
    /\ call.output.throws => call.output.xHex = << >> /\ call.output.yHex = << >>
    /\ \A kty \in {<< >>, CborInt(2)}, x \in CoseValues, y \in CoseValues :
         call.input = CoseMap(kty, x, y) =>
           IF x = << >> \/ y = << >> THEN call.output.throws
           ELSE /\ ~call.output.throws
                /\ \A b \in {<< 10 >>, << 11, 255 >>, << >>} :
                     /\ x = CborBytes(b) => call.output.xHex = ToHex(b)
                     /\ y = CborBytes(b) => call.output.yHex = ToHex(b)
    /\ call.input \in {<< >>, CborInt(5), CborBytes(<< 10 >>), << 255 >>} =>
         call.output.throws

\* C24 amended: the same of the maps whose entries at labels -2 and -3 are
\* byte strings; a map without one of the two labels and an input that is
\* not a CBOR map make it throw and return no coordinates.
C24_CoseByteStringCoordinates ==
  call.fn = "parseCoseP256Key" =>
    /\ call.output.throws => call.output.xHex = << >> /\ call.output.yHex = << >>
    /\ \A kty \in {<< >>, CborInt(2)}, x \in CoseValues, y \in CoseValues :
         call.input = CoseMap(kty, x, y) =>
           /\ (x = << >> \/ y = << >>) => call.output.throws
           /\ \A bx, by \in {<< 10 >>, << 11, 255 >>, << >>} :
                (x = CborBytes(bx) /\ y = CborBytes(by)) =>
                  /\ ~call.output.throws
                  /\ call.output.xHex = ToHex(bx)
                  /\ call.output.yHex = ToHex(by)
    /\ call.input \in {CborInt(5), CborBytes(<< 10 >>)} =>
         /\ call.output.throws
         /\ call.output.message = "COSE public key is not a CBOR map?"
    /\ call.input \in {<< >>, << 255 >>} => call.output.throws

C24_TwoCoordinatesDecoded ==
  /\ call.fn = "parseCoseP256Key"
  /\ ~call.output.throws
  /\ call.output.xHex = << "0", "b", "f", "f" >>
  /\ call.output.yHex = << "0", "a" >>

\* C25: no verify-login is answered verified for a user whose registration
\* was never verified: every user a login was accepted for had a
\* verify-registration accepted, and holds a credential.
C25_NoLoginBeforeRegistration ==
  /\ \A a \in accepted :
       a.op = "verify-login" =>
         /\ \E b \in accepted : b.op = "verify-registration" /\ b.userId = a.userId
         /\ RegistrationPhase(a.userId) = 2
  /\ (lastResp.op = "verify-login" /\ lastResp.verified) =>
       Acceptance(lastResp) \in accepted

C25_PlaceholderLoginRejected ==
  /\ lastResp.op = "verify-login"
  /\ ~lastResp.verified
  /\ lastResp.userId \in DOMAIN userDB
  /\ Stored(lastResp.userId) = Placeholder(Stored(lastResp.userId).username)
  /\ lastResp.challenge \in loginChallengeMap
  /\ lastResp.error = "No usable public key"

\* C26: each generate-registration-options takes a userId that is not yet a
\* key of userDB: it adds the placeholder record of that one user and, when
\* it is answered, that user's pending registration challenge, and it leaves
\* the record and the pending challenge of every other user as they were,
\* other users of the same username included.
C26_RegistrationAddsOneUser ==
  [][/\ (/\ Len(reqs') > Len(reqs)
         /\ \E i \in DOMAIN reqs' : reqs'[i].op = "generate-registration-options") =>
          /\ \E userId \in UserIds \ DOMAIN userDB :
               /\ DOMAIN userDB' = DOMAIN userDB \cup {userId}
               /\ \E userName \in UserNames :
                    heap'[userDB'[userId]] = Placeholder(userName)
          /\ \A u \in DOMAIN userDB : heap'[userDB'[u]] = Stored(u)
          /\ registrationChallengeMap' = registrationChallengeMap
     /\ \A i \in Suspended :
          (reqs[i].op = "generate-registration-options" /\ Answers(i)) =>
            /\ reqs[i].userId \notin DOMAIN registrationChallengeMap
            /\ DOMAIN registrationChallengeMap'
                 = DOMAIN registrationChallengeMap \cup {reqs[i].userId}
            /\ \A u \in DOMAIN registrationChallengeMap :
                 registrationChallengeMap'[u] = registrationChallengeMap[u]
            /\ Users' = Users]_vars

C26_SameUsernameAgain ==
  /\ lastResp.op = "generate-registration-options"
  /\ \E u, v \in DOMAIN userDB :
       /\ u # v
       /\ Stored(u).username = Stored(v).username
       /\ RegistrationPhase(u) = 2
       /\ Stored(u).credentials.counter > 0
       /\ v = lastResp.userId
       /\ v \in DOMAIN registrationChallengeMap

\* C27: verify-login checks in a fixed order: the challenge lookup, then the
\* presence of the user handle, then the user lookup, then verification.  A
\* request is answered by the first check it fails, so one with an unknown
\* challenge and an unknown user handle gets the challenge-not-found error,
\* and a request goes to verification only when it passed the three checks.
\* (The first conjunct is of the steps that answer at once, the second of the
\* steps that suspend a request at the verifier.)
C27_LoginChecksInOrder ==
  [][/\ (reqs' = reqs /\ lastResp'.op = "verify-login") =>
          \A challenge \in Challenges, userId \in Handles :
            (/\ \/ challenge \notin loginChallengeMap
                \/ userId = NoHandle
                \/ userId \notin DOMAIN userDB
             /\ VerifyLoginRequest(challenge, userId)) =>
              IF challenge \notin loginChallengeMap
              THEN lastResp'.error = "Challenge not found or expired"
              ELSE IF userId = NoHandle
              THEN lastResp'.error = "UserId Not Found"
              ELSE lastResp'.error = "User Not Found"
     /\ Len(reqs') > Len(reqs) =>
          \A i \in DOMAIN reqs' :
            (reqs'[i].op = "verify-login" /\ reqs = Resume(i)') =>
              /\ reqs'[i].challenge \in loginChallengeMap
              /\ reqs'[i].userId # NoHandle
              /\ reqs'[i].userId \in DOMAIN userDB
              /\ lastResp' = lastResp]_vars

C27_UnknownChallengeAndHandle ==
  /\ lastResp.op = "verify-login"
  /\ lastResp.error = "Challenge not found or expired"
  /\ userDB = << >>
  /\ loginChallengeMap # {}

\* C28: every userId with a pending registration challenge is a key of
\* userDB, so no verify-registration is answered 404 "User not found".
C28_PendingChallengeHasRecord ==
  /\ DOMAIN registrationChallengeMap \subseteq DOMAIN userDB
  /\ \A i \in Suspended :
       reqs[i].op = "verify-registration" => reqs[i].userId \in DOMAIN userDB
  /\ lastResp.error # "User not found"
  /\ lastResp.status # 404

C28_UnknownUserHasNoChallenge ==
  /\ lastResp.op = "verify-registration"
  /\ lastResp.error = "No challenge found for user"
  /\ lastResp.userId \notin DOMAIN userDB
  /\ registrationChallengeMap # << >>

\* C29: an outstanding login challenge does not expire: it leaves
\* loginChallengeMap only in the step that answers a verify-login presenting
\* it, whatever else happens in between.
C29_LoginChallengeStays ==
  [][\A challenge \in loginChallengeMap :
       challenge \notin loginChallengeMap' =>
         \E i \in Suspended :
           /\ reqs[i].op = "verify-login"
           /\ reqs[i].challenge = challenge
           /\ Answers(i)]_vars

C29_StillOutstandingLater ==
  /\ nextChallenge > MaxLoginChallenges
  /\ \E challenge \in loginChallengeMap :
       /\ \E a \in accepted : a.op = "verify-login" /\ a.challenge > challenge
       /\ lastResp.op = "verify-login"
       /\ lastResp.challenge = challenge
       /\ lastResp.error = "Login not verified"

\* C30: base64urlToUint8Array(uint8ArrayToBase64Url(b)) = b for every byte
\* sequence b: what verify-login decodes from a stored credential ID or
\* public key is byte for byte what verify-registration encoded.
C30_Base64UrlRoundTrip ==
  call.fn = "base64url" =>
    /\ ~call.output.throws
    /\ call.output.bytes = call.input

C30_UrlAlphabetRoundTrip ==
  /\ call.fn = "base64url"
  /\ call.input = << 251, 255 >>
  /\ uint8ArrayToBase64Url(call.input) = << "-", "_", "8" >>
  /\ call.output.bytes = << 251, 255 >>

\* C33: in the key-store server a userId once registered keeps its first
\* public key: a /register for a userId already in db answers 400 "User
\* already exists" and leaves db as it was; a /login for a userId not in db
\* answers 404; a token is issued only by a /login for a userId in db; and no
\* request of any kind removes or changes an entry of db.
C33_FirstKeyKept ==
  [][/\ \A userId \in DOMAIN db :
          userId \in DOMAIN db' /\ db'[userId] = db[userId]
     /\ \A userId \in StoreUserIds, publicKey \in PublicKeys :
          (Register(userId, publicKey) /\ userId \in DOMAIN db)
            => /\ storeResp'.status = 400
               /\ storeResp'.error = "User already exists"
               /\ db' = db
     /\ \A userId \in StoreUserIds :
          (Login(userId) /\ userId \notin DOMAIN db)
            => storeResp'.status = 404 /\ storeResp'.token = NoToken
     /\ (storeResp'.op = "login" /\ storeResp'.token # NoToken)
          => /\ storeResp'.userId \in DOMAIN db
             /\ storeResp'.token = sign(storeResp'.userId)]_vars

C33_SecondRegisterRefused ==
  /\ storeResp.op = "register"
  /\ storeResp.error = "User already exists"
  /\ storeResp.userId \in DOMAIN db
  /\ db[storeResp.userId] # storeResp.publicKey
  /\ \E userId \in StoreUserIds : userId \notin DOMAIN db

\* C31: createPasskey assigns the global webAuthnKey only in a run whose
\* verify-registration reply carried no error: a registration the server
\* rejected leaves no signing key in the app.
C31_KeyOnlyAfterAcceptedRegistration ==
  [][CreatePasskeyToWebAuthnKey(TRUE) => ~creating.replyError]_vars

\* C32: the "UserOp sent!" alert is shown only by a Send UserOp run whose
\* sendUserOp submitted a user operation and awaited its receipt; a press made
\* while no webAuthnKey is set shows the "No webAuthnKey found" alert and is
\* not followed by the success alert.
C32_SentAlertOnlyAfterReceipt ==
  [][/\ SendUserOpReturned => sending.submitted /\ sending.receipt
     /\ (SendUserOpPress /\ webAuthnKey = NoKey)
          => lastAlert' = "No webAuthnKey found. Register a passkey first."
     /\ SendUserOpReturned => ~sending.noKey]_vars

====
